---- MODULE Spec2Model ----
(***************************************************************************)
(* A model of django-batch-requests: the batch view handle_batch_requests, *)
(* its two execution strategies (execute_requests, parallel and            *)
(* sequential), the request materializer construct_wsgi_from_data, the     *)
(* dispatch wrapper get_response and the JSON-API rewriter JsonApiRewriter. *)
(***************************************************************************)
EXTENDS Integers, Sequences, FiniteSets, TLC

VARIABLES
    sequential_override, \* the run_sequential flag of the entry point
    add_duration_header, \* _settings.ADD_DURATION_HEADER
    batch,               \* the value under "batch" of the outer request's body
    requests,            \* the list get_requests_data returned (rewrite_request mutates its items)
    pc,                  \* position of handle_batch_requests / execute_requests
    i,                   \* the loop index of the sequential for loop (0-based, as in the code)
    txn,                 \* transaction.atomic(): "none", "active", "committed", "rolled_back"
    mapping,             \* rewriter.mapping
    next_variables,      \* next_variables of the sequential loop, in insertion order
    results,             \* results of the sequential loop
    wsgi_request,        \* the (wsgi_request, onward_params) pair construct_wsgi_from_data returned
    result,              \* the result of get_response for index i
    wsgi_requests,       \* parallel mode: the list get_wsgi_requests returned
    futures,             \* parallel mode: the executor's results by submission index
    exc,                 \* the exception in flight, NoExc when there is none
    ret,                 \* what execute_requests returned
    response,            \* what handle_batch_requests returned, or the exception that escaped it
    dispatched,          \* history: every call of get_response, in order
    log,                 \* history: the per-index steps of the sequential loop, in order
    peer                 \* the locals and history of a second call of handle_batch_requests
                         \* that is in progress in another thread, NoValue when there is none

vars == <<sequential_override, add_duration_header, batch, requests, pc, i, txn,
          mapping, next_variables, results, wsgi_request, result, wsgi_requests,
          futures, exc, ret, response, dispatched, log, peer>>

-----------------------------------------------------------------------------
(* Python values.  Every value is a record tagged with its type ty; a dict *)
(* is a function from its keys to values, a list a sequence of values.  A  *)
(* str whose content is JSON text built by json.dumps has ty "jstr" and    *)
(* holds that text (see JsonDumps); any other str has ty "str" and holds   *)
(* its characters.                                                         *)

PyNone == [ty |-> "none"]
PyInt(n) == [ty |-> "int", n |-> n]
PyStr(s) == [ty |-> "str", s |-> s]
PyDict(f) == [ty |-> "dict", d |-> f]
PyList(s) == [ty |-> "list", l |-> s]
PyJsonStr(text) == [ty |-> "jstr", text |-> text]

EmptyDict == PyDict(<<>>)

\* A test for None in place of the truth value
Truthy_not_none(value) == value.ty # "none"

\* bool(value)
Truthy(value) ==
    CASE value.ty = "none" -> FALSE
      [] value.ty = "int" -> value.n # 0
      [] value.ty = "str" -> value.s # ""
      [] value.ty = "dict" -> DOMAIN value.d # {}
      [] value.ty = "list" -> Len(value.l) # 0
      [] OTHER -> TRUE

\* An outcome of a call: the value it returned, or the exception it raised.
\* An exception has a type and, a BadBatchRequest, the message it was built with.
Returned(value) == [ok |-> TRUE, value |-> value]
Raised(type) == [ok |-> FALSE, raised |-> [type |-> type]]
IsRaised(outcome) == ~outcome.ok

\* The call returned and Then goes on with its value, or its exception propagates.
Try(outcome, Then(_)) == IF IsRaised(outcome) THEN outcome ELSE Then(outcome.value)
BadBatchRequest(message) ==
    [ok |-> FALSE, raised |-> [type |-> "BadBatchRequest", message |-> message]]

\* dict.get(key, default) on a Python dict value
DictGet(d, key, default) == IF key \in DOMAIN d.d THEN d.d[key] ELSE default

-----------------------------------------------------------------------------
(* JSON text.  A text is a tree of lexemes: an object, an array, the       *)
(* literal of a scalar, or raw characters that replace() put in place of a *)
(* string literal.                                                         *)

Lit(value) == [lx |-> "lit", lit |-> value]
RawText(s) == [lx |-> "raw", raw |-> s]

RECURSIVE JsonDumps(_)
\* json.dumps(value)
JsonDumps(value) ==
    CASE value.ty = "dict" -> [lx |-> "obj", obj |-> [k \in DOMAIN value.d |-> JsonDumps(value.d[k])]]
      [] value.ty = "list" -> [lx |-> "arr", arr |-> [k \in DOMAIN value.l |-> JsonDumps(value.l[k])]]
      [] OTHER -> Lit(value)

\* The characters that are JSON text on their own, with the value they
\* decode to: the digits of a number decode to the number.  The characters
\* of an identifier such as uuid-1 are no JSON text.
RawJson == [s \in {"7"} |-> PyInt(7)]

RECURSIVE JsonValid(_)
\* whether json.loads accepts the text
JsonValid(text) ==
    CASE text.lx = "obj" -> \A k \in DOMAIN text.obj : JsonValid(text.obj[k])
      [] text.lx = "arr" -> \A k \in DOMAIN text.arr : JsonValid(text.arr[k])
      [] text.lx = "raw" -> text.raw \in DOMAIN RawJson
      [] OTHER -> TRUE

RECURSIVE JsonDecode(_)
\* the value json.loads builds from a text it accepts
JsonDecode(text) ==
    CASE text.lx = "obj" -> PyDict([k \in DOMAIN text.obj |-> JsonDecode(text.obj[k])])
      [] text.lx = "arr" -> PyList([k \in DOMAIN text.arr |-> JsonDecode(text.arr[k])])
      [] text.lx = "raw" -> RawJson[text.raw]
      [] OTHER -> text.lit

\* json.loads(s) for a Python value s
JsonLoads(s) ==
    CASE s.ty = "jstr" -> IF JsonValid(s.text) THEN Returned(JsonDecode(s.text))
                          ELSE Raised("JSONDecodeError")
      [] s.ty = "str" -> IF s.s \in DOMAIN RawJson THEN Returned(RawJson[s.s])
                         ELSE Raised("JSONDecodeError")
      [] OTHER -> Raised("TypeError")

\* '"{{' + name + '}}"' is the string literal whose content is {{name}}
Placeholder(name) == PyStr("{{" \o name \o "}}")

RECURSIVE TextReplace(_, _, _)
\* text.replace(placeholder, new) on the text of json.dumps, new a str:
\* every string literal that is the placeholder becomes the characters of new
TextReplace(text, name, new) ==
    CASE text.lx = "obj" -> [lx |-> "obj", obj |-> [k \in DOMAIN text.obj |-> TextReplace(text.obj[k], name, new)]]
      [] text.lx = "arr" -> [lx |-> "arr", arr |-> [k \in DOMAIN text.arr |-> TextReplace(text.arr[k], name, new)]]
      [] text.lx = "lit" -> IF text.lit = Placeholder(name)
                            THEN (IF new.ty = "jstr" THEN new.text ELSE RawText(new.s))
                            ELSE text
      [] OTHER -> text

-----------------------------------------------------------------------------
(* Descriptors and results are Python dicts with fixed kinds of values, so *)
(* they are functions from their keys: a key that is absent is not in the  *)
(* DOMAIN.                                                                 *)

\* request.get(key, default)
Get(request, key, default) == IF key \in DOMAIN request THEN request[key] ELSE default

\* request[key] = value
Put(request, key, value) ==
    [k \in DOMAIN request \cup {key} |-> IF k = key THEN value ELSE request[k]]

\* str.lower() on the method names the model uses
Lower(method) ==
    CASE method = "GET" -> "get"
      [] method = "POST" -> "post"
      [] method = "Patch" -> "patch"
      [] method = "DELETE" -> "delete"
      [] OTHER -> method

-----------------------------------------------------------------------------
(* jsonapi.py: JsonApiRewriter.  self.mapping, the nested dict             *)
(* mapping[type][id], is a function from the pairs <<type, id>>.           *)

rewrite_methods == {"post", "put", "patch", "delete"}
update_methods == {"post", "put", "patch"}
update_status_codes == {200, 201}

Unhashable(value) == value.ty \in {"dict", "list"}

\* A loop over the items of a dict: an exception one of them raises, else
\* the values built.
Collect(outs) ==
    IF \E k \in DOMAIN outs : IsRaised(outs[k])
    THEN outs[CHOOSE k \in DOMAIN outs : IsRaised(outs[k])]
    ELSE Returned([k \in DOMAIN outs |-> outs[k].value])

\* A loop over a list, in order: the first exception raised, else the values built.
CollectSeq(outs) ==
    IF \E k \in DOMAIN outs : IsRaised(outs[k])
    THEN outs[CHOOSE k \in DOMAIN outs :
                 IsRaised(outs[k]) /\ \A j \in DOMAIN outs : IsRaised(outs[j]) => k <= j]
    ELSE Returned([k \in DOMAIN outs |-> outs[k].value])

\* should_rewrite with get among the methods to rewrite
should_rewrite_get(request) ==
    Lower(Get(request, "method", "")) \in rewrite_methods \cup {"get"}

should_rewrite(request) == Lower(Get(request, "method", "")) \in rewrite_methods

\* should_update without the test of the status code
should_update_any_status(request, rsp) ==
    Lower(Get(request, "method", "")) \in update_methods

should_update(request, rsp) ==
    /\ Lower(Get(request, "method", "")) \in update_methods
    /\ "status_code" \in DOMAIN rsp
    /\ rsp["status_code"] \in update_status_codes

\* map_relation_id that looks the id up whatever the type
map_relation_id_by_id(m, relation) ==
    IF Unhashable(DictGet(relation, "id", PyNone)) THEN Raised("TypeError")
    ELSE IF \E key \in DOMAIN m : key[2] = DictGet(relation, "id", PyNone)
    THEN Returned(m[CHOOSE key \in DOMAIN m : key[2] = DictGet(relation, "id", PyNone)])
    ELSE Returned(PyNone)

\* self.mapping.get(type, {}).get(id) of a relation that is a dict
map_relation_id(m, relation) ==
    IF Unhashable(DictGet(relation, "type", PyNone)) \/ Unhashable(DictGet(relation, "id", PyNone))
    THEN Raised("TypeError")
    ELSE IF <<DictGet(relation, "type", PyNone), DictGet(relation, "id", PyNone)>> \in DOMAIN m
    THEN Returned(m[<<DictGet(relation, "type", PyNone), DictGet(relation, "id", PyNone)>>])
    ELSE Returned(PyNone)

\* The relation after rewrite_relation
rewrite_relation(m, relation) ==
    IF relation.ty = "none" THEN Returned(relation)
    ELSE IF relation.ty # "dict" THEN Raised("AttributeError")
    ELSE Try(map_relation_id(m, relation), LAMBDA mapped_id :
             IF Truthy(mapped_id)
             THEN Returned(PyDict(Put(relation.d, "id", mapped_id)))
             ELSE Returned(relation))

rewrite_main(m, data) == rewrite_relation(m, data)

\* The data of a relationship after the loop of rewrite_relationship
rewrite_related(m, data) ==
    IF data.ty = "list"
    THEN Try(CollectSeq([k \in DOMAIN data.l |-> rewrite_relation(m, data.l[k])]),
             LAMBDA related : Returned(PyList(related)))
    ELSE rewrite_relation(m, data)

\* The relationship after rewrite_relationship
rewrite_relationship(m, relationship) ==
    IF relationship.ty # "dict" THEN Raised("AttributeError")
    ELSE IF "data" \notin DOMAIN relationship.d
         THEN \* the default {} is rewritten, not the relationship
              Returned(relationship)
    ELSE Try(rewrite_related(m, relationship.d["data"]),
             LAMBDA data : Returned(PyDict(Put(relationship.d, "data", data))))

\* data after the loop over data.get('relationships', {}).items()
rewrite_relationships(m, data) ==
    IF data.ty # "dict" THEN Raised("AttributeError")
    ELSE IF "relationships" \notin DOMAIN data.d THEN Returned(data)
    ELSE IF data.d["relationships"].ty # "dict" THEN Raised("AttributeError")
    ELSE Try(Collect([name \in DOMAIN data.d["relationships"].d |->
                         rewrite_relationship(m, data.d["relationships"].d[name])]),
             LAMBDA rels : Returned(PyDict(Put(data.d, "relationships", PyDict(rels)))))

\* The body after rewrite_body
rewrite_body(m, body) ==
    IF body.ty # "dict" THEN Raised("AttributeError")
    ELSE IF "data" \notin DOMAIN body.d
         THEN \* data is the default {}: nothing of the body is reached
              Returned(body)
    ELSE Try(rewrite_main(m, body.d["data"]), LAMBDA main :
             Try(rewrite_relationships(m, main),
                 LAMBDA data : Returned(PyDict(Put(body.d, "data", data)))))

\* The request after rewrite_request
rewrite_request(m, request) ==
    IF ~should_rewrite(request) THEN Returned(request)
    ELSE IF Get(request, "body", PyNone).ty = "none" THEN Returned(request)
    ELSE Try(JsonLoads(request["body"]), LAMBDA loaded :
             Try(rewrite_body(m, loaded),
                 LAMBDA body : Returned(Put(request, "body", body))))

\* 'id' in data
ContainsId(data) ==
    CASE data.ty = "dict" -> Returned("id" \in DOMAIN data.d)
      [] data.ty = "list" -> Returned(\E k \in DOMAIN data.l : data.l[k] = PyStr("id"))
      [] data.ty = "str" -> Returned(data.s = "id")
      [] OTHER -> Raised("TypeError")

\* self.mapping.setdefault(req_data['type'], {})[req_data['id']] = rsp_data['id']
set_mapping(m, req_data, rsp_data) ==
    IF req_data.ty # "dict" \/ rsp_data.ty # "dict" THEN Raised("TypeError")
    ELSE IF "type" \notin DOMAIN req_data.d THEN Raised("KeyError")
    ELSE IF Unhashable(req_data.d["type"]) \/ Unhashable(req_data.d["id"])
    THEN Raised("TypeError")
    ELSE Returned([k \in DOMAIN m \cup {<<req_data.d["type"], req_data.d["id"]>>} |->
                      IF k = <<req_data.d["type"], req_data.d["id"]>>
                      THEN rsp_data.d["id"] ELSE m[k]])

\* update_mapping from req_data and rsp_data on
update_data(m, req_data, rsp_data) ==
    Try(ContainsId(req_data), LAMBDA req_has :
        IF ~req_has THEN Returned(m)
        ELSE Try(ContainsId(rsp_data), LAMBDA rsp_has :
                 IF ~rsp_has THEN Returned(m)
                 ELSE set_mapping(m, req_data, rsp_data)))

\* self.mapping after update_mapping
update_mapping(m, request, rsp) ==
    IF ~should_update(request, rsp) THEN Returned(m)
    ELSE IF Get(request, "body", PyNone).ty = "none" \/ Get(rsp, "body", PyNone).ty = "none"
    THEN Returned(m)
    ELSE IF request["body"].ty # "dict" \/ rsp["body"].ty # "dict" THEN Raised("AttributeError")
    ELSE update_data(m, DictGet(request["body"], "data", EmptyDict),
                     DictGet(rsp["body"], "data", EmptyDict))

-----------------------------------------------------------------------------
(* views.py and utils.py: the operations on one sub-request.               *)

\* _settings.MAX_LIMIT, the configured ceiling on the length of a batch
MAX_LIMIT == 3

\* The paths the host's URL configuration resolves
UrlPatterns == {"/a", "/b", "/c"}

valid_http_methods ==
    {"get", "post", "put", "patch", "delete", "head", "options", "connect", "trace"}

Message(text) == [text |-> text]

\* is_error with the client errors left out of the range
is_error_5xx(code) == 500 <= code /\ code <= 599

\* is_error(code)
is_error(code) == 400 <= code /\ code <= 599

\* get_wsgi_request_object: the request the factory builds.  data is the
\* body as it is sent: a truthy body that is not JSON text already is
\* JSON-encoded.  descriptor is the index of the descriptor the request was
\* built from (history, not a field of the code's object).
get_wsgi_request_object(method, url, body, descriptor) ==
    [method |-> Lower(method), path_info |-> url,
     data |-> IF Truthy(body) /\ IsRaised(JsonLoads(body))
              THEN PyJsonStr(JsonDumps(body)) ELSE body,
     descriptor |-> descriptor]

\* json.loads(json.dumps(body).replace(placeholder, value))
Replaced(body, name, value) ==
    IF value.ty \notin {"str", "jstr"}
    THEN Raised("TypeError")  \* replace() argument 2 must be str
    ELSE JsonLoads(PyJsonStr(TextReplace(JsonDumps(body), name, value)))

RECURSIVE Substitute(_, _)
\* The loop over replace_params.items() of construct_wsgi_from_data
Substitute(body, replace_params) ==
    IF replace_params = <<>> THEN Returned(body)
    ELSE Try(Replaced(body, Head(replace_params).name, Head(replace_params).value),
             LAMBDA replaced : Substitute(replaced, Tail(replace_params)))

\* The body construct_wsgi_from_data gives the request
request_body(request, replace_params) ==
    IF Lower(request["method"]) \notin {"get", "options"}
    THEN Substitute(Get(request, "body", PyStr("")), replace_params)
    ELSE Returned(PyNone)

\* construct_wsgi_from_data after rewriter.rewrite_request(data)
construct_rewritten(request, replace_params, descriptor) ==
    IF "url" \notin DOMAIN request \/ "method" \notin DOMAIN request
    THEN BadBatchRequest(Message("Request definition should have url, method defined."))
    ELSE IF Lower(request["method"]) \notin valid_http_methods
    THEN BadBatchRequest(Message("Invalid request method."))
    ELSE Try(request_body(request, replace_params), LAMBDA body :
             Returned([data |-> request,
                       wsgi_request |-> get_wsgi_request_object(
                           request["method"], request["url"], body, descriptor),
                       onward_variables |-> Get(request, "onward_data", <<>>)]))

\* construct_wsgi_from_data(request, data, replace_params, rewriter): the
\* pair it returns, with the descriptor as rewrite_request left it.
\* m is rewriter.mapping; use_rewriter is whether a rewriter was passed.
construct_wsgi_from_data(data, replace_params, use_rewriter, m, descriptor) ==
    Try(IF use_rewriter THEN rewrite_request(m, data) ELSE Returned(data),
        LAMBDA request : construct_rewritten(request, replace_params, descriptor))

\* What the view of a resolved path does with the request: it raises, or
\* it returns a response.  The host's views are not part of this program.
HttpResponseServerError(content) ==
    [status_code |-> 500, reason_phrase |-> "Internal Server Error",
     headers |-> [content_type |-> "text/html"], content |-> content]

\* The result dict get_response builds from the response of the view
\* (lines 76 to 96), loaded being what json.loads(content) did
result_of(rsp, loaded) ==
    [status_code |-> rsp.status_code, reason_phrase |-> rsp.reason_phrase,
     headers |-> rsp.headers,
     body |-> IF IsRaised(loaded) THEN rsp.content ELSE loaded.value]

\* get_response with the call of the view outside the try
get_response_inner_propagates(wsgi, view) ==
    IF wsgi.path_info \notin UrlPatterns
    THEN Returned([status_code |-> 404, reason_phrase |-> "Page not found"])
    ELSE IF view.raises THEN Raised("Exception")
    ELSE Returned(result_of(view.response, JsonLoads(view.response.content)))

\* get_response before decoration.  view is what the view called does:
\* [raises |-> TRUE, message] or [raises |-> FALSE, response].
get_response_inner(wsgi, view) ==
    IF wsgi.path_info \notin UrlPatterns
    THEN Returned([status_code |-> 404, reason_phrase |-> "Page not found"])
    ELSE IF view.raises
    THEN Returned(result_of(HttpResponseServerError(PyStr(view.message)),
                            JsonLoads(PyStr(view.message))))
    ELSE Returned(result_of(view.response, JsonLoads(view.response.content)))

\* The headers withDebugHeaders leaves in the result
debug_headers(headers, wsgi) ==
    [k \in DOMAIN headers \cup {"request_url", "duration"} |->
        IF k = "request_url" THEN wsgi.path_info
        ELSE IF k = "duration" THEN "time_taken"
        ELSE headers[k]]

\* withDebugHeaders(view_handler)(wsgi_request), handled being what
\* view_handler returned or raised
withDebugHeaders(handled, wsgi, add_header) ==
    IF ~add_header THEN handled
    ELSE Try(handled, LAMBDA rsp :
             Returned(Put(rsp, "headers", debug_headers(Get(rsp, "headers", <<>>), wsgi))))

\* get_response that raises for a result in the error range instead of
\* returning it
get_response_aborting(wsgi, view, add_header) ==
    Try(withDebugHeaders(get_response_inner(wsgi, view), wsgi, add_header), LAMBDA rsp :
        IF is_error(rsp.status_code)
        THEN BadBatchRequest(Message("Request failed."))
        ELSE Returned(rsp))

\* get_response(wsgi_request), decorated
get_response(wsgi, view, add_header) ==
    withDebugHeaders(get_response_inner(wsgi, view), wsgi, add_header)

\* get_requests_data with the ceiling one too low
get_requests_data_ge(b) ==
    IF b.kind # "list"
    THEN BadBatchRequest(Message("The body of batch request should always be list!"))
    ELSE IF Len(b.items) >= MAX_LIMIT
    THEN BadBatchRequest([text |-> "You can batch maximum of %d requests.", limit |-> MAX_LIMIT])
    ELSE Returned(b.items)

\* get_requests_data(request): the list under "batch"
get_requests_data(b) ==
    IF b.kind # "list"
    THEN BadBatchRequest(Message("The body of batch request should always be list!"))
    ELSE IF Len(b.items) > MAX_LIMIT
    THEN BadBatchRequest([text |-> "You can batch maximum of %d requests.", limit |-> MAX_LIMIT])
    ELSE Returned(b.items)

\* get_wsgi_requests that builds the list back to front
get_wsgi_requests_reversed(b) ==
    Try(get_requests_data(b), LAMBDA data :
        CollectSeq([k \in DOMAIN data |->
                       construct_wsgi_from_data(data[Len(data) + 1 - k], <<>>, FALSE, <<>>,
                                                Len(data) - k)]))

\* The requests built before the first descriptor that cannot be built
BuiltPrefix(outs) ==
    [k \in {n \in DOMAIN outs : \A j \in 1..n : ~IsRaised(outs[j])} |-> outs[k].value]

\* get_wsgi_requests that stops at a descriptor it cannot build and keeps
\* the requests built so far
get_wsgi_requests_prefix(b) ==
    Try(get_requests_data(b), LAMBDA data :
        Returned(BuiltPrefix([k \in DOMAIN data |->
                     construct_wsgi_from_data(data[k], <<>>, FALSE, <<>>, k - 1)])))

\* get_wsgi_requests(request): every descriptor materialized, in input order
get_wsgi_requests(b) ==
    Try(get_requests_data(b), LAMBDA data :
        CollectSeq([k \in DOMAIN data |->
                       construct_wsgi_from_data(data[k], <<>>, FALSE, <<>>, k - 1)]))

\* value.get(accessor) in place of value[accessor]: a step that does not
\* resolve gives None
Subscript_get(value, accessor) ==
    IF value.ty # "dict" THEN Returned(PyNone)
    ELSE Returned(DictGet(value, accessor, PyNone))

\* One step of value = value[accessor]
Subscript(value, accessor) ==
    IF value.ty # "dict" THEN Raised("TypeError")
    ELSE IF accessor \notin DOMAIN value.d THEN Raised("KeyError")
    ELSE Returned(value.d[accessor])

RECURSIVE Walk(_, _)
\* for accessor in accessors: value = value[accessor]
Walk(value, accessors) ==
    IF accessors = <<>> THEN Returned(value)
    ELSE Try(Subscript(value, Head(accessors)), LAMBDA next : Walk(next, Tail(accessors)))

\* next_variables[name] = value on the insertion-ordered dict
Bind(bindings, name, value) ==
    IF \E k \in DOMAIN bindings : bindings[k].name = name
    THEN [k \in DOMAIN bindings |->
             IF bindings[k].name = name THEN [name |-> name, value |-> value]
             ELSE bindings[k]]
    ELSE Append(bindings, [name |-> name, value |-> value])

RECURSIVE Onward(_, _, _)
\* The loop over onward_params.items() of execute_requests: next_variables
\* after it.  accessor_string.split('.') is the list of the segments
\* between the dots, which is what a descriptor's onward_data holds here.
Onward(bindings, onward_params, rsp) ==
    IF onward_params = <<>> THEN Returned(bindings)
    ELSE IF "body" \notin DOMAIN rsp THEN Raised("KeyError")
    ELSE Try(Walk(rsp["body"], Head(onward_params).accessors), LAMBDA value :
             Onward(IF Truthy(value) THEN Bind(bindings, Head(onward_params).name, value)
                    ELSE bindings,
                    Tail(onward_params), rsp))

\* The message of the BadBatchRequest of a failed sequential request
SequentialMessage(index, body) ==
    [text |-> "Sequential requests failed for request at index", index |-> index,
     body |-> JsonDumps(body)]

-----------------------------------------------------------------------------
(* The inputs: the batches of the outer request and what the host's views  *)
(* answer.                                                                 *)

\* The longest batch of the model, one more than MAX_LIMIT
MaxLen == 4

JsonApi(type, id) == PyDict([data |-> PyDict([type |-> PyStr(type), id |-> id])])

JsonBody(value) == PyJsonStr(JsonDumps(value))

Response(status_code, reason_phrase, content) ==
    [status_code |-> status_code, reason_phrase |-> reason_phrase,
     headers |-> [content_type |-> "application/json"], content |-> content]

Responses ==
    { Response(200, "OK", JsonBody(JsonApi("A", PyInt(42)))),
      Response(201, "Created", JsonBody(JsonApi("A", PyInt(0)))),
      Response(201, "Created", JsonBody(JsonApi("B", PyStr("7")))),
      Response(200, "OK", JsonBody(EmptyDict)),
      Response(200, "OK", PyStr("done")),
      Response(400, "Bad Request", JsonBody(PyDict([detail |-> PyStr("invalid")]))),
      Response(599, "Unknown Status Code", PyStr("")) }

Views ==
    {[raises |-> TRUE, message |-> "boom"]}
        \cup {[raises |-> FALSE, response |-> r] : r \in Responses}

\* No view is called for a path that does not resolve
NoView == [raises |-> FALSE]

\* What the view of a JSON-API resource answers under /b: another 2xx
\* status, an error with a resource in its body, resources whose id is
\* falsy or missing
ApiResponses ==
    { Response(200, "OK", JsonBody(JsonApi("A", PyInt(42)))),
      Response(202, "Accepted", JsonBody(JsonApi("A", PyInt(5)))),
      Response(400, "Bad Request", JsonBody(JsonApi("A", PyInt(9)))),
      Response(200, "OK", JsonBody(JsonApi("A", PyStr("")))),
      Response(200, "OK", JsonBody(JsonApi("A", PyNone))),
      Response(200, "OK", JsonBody(PyDict([data |-> PyDict([type |-> PyStr("A")])]))) }

ApiViews == {[raises |-> FALSE, response |-> r] : r \in ApiResponses}

\* What the view under /c answers: a created resource with one of two ids
CreatedResponses ==
    { Response(201, "Created", JsonBody(JsonApi("A", PyStr("7")))),
      Response(201, "Created", JsonBody(JsonApi("A", PyStr("s2")))) }

CreatedViews == {[raises |-> FALSE, response |-> r] : r \in CreatedResponses}

Called(wsgi) ==
    IF wsgi.path_info = "/c" THEN CreatedViews
    ELSE IF wsgi.path_info = "/b" THEN ApiViews
    ELSE IF wsgi.path_info \in UrlPatterns THEN Views
    ELSE {NoView}

\* Descriptors that differ in url and method
CtlDescriptors ==
    { [url |-> "/a", method |-> "GET"],
      [url |-> "/a", method |-> "POST", body |-> JsonBody(JsonApi("A", PyStr("uuid-1")))],
      [url |-> "/nf", method |-> "GET"],
      [method |-> "GET"],
      [url |-> "/a"],
      [url |-> "/a", method |-> "bogus"] }

\* Descriptors that pass a value of one response on to later requests
OnwardData == <<[name |-> "newId", accessors |-> <<"data", "id">>]>>

OnwardDescriptors ==
    { [url |-> "/a", method |-> "GET", onward_data |-> OnwardData],
      [url |-> "/a", method |-> "POST",
       body |-> JsonBody(JsonApi("B", PyStr("{{newId}}")))],
      [url |-> "/a", method |-> "POST", onward_data |-> OnwardData,
       body |-> JsonBody(JsonApi("B", PyStr("{{newId}}")))],
      [url |-> "/a", method |-> "head",
       body |-> PyDict([ref |-> PyStr("{{newId}}")])] }

\* Descriptors of JSON-API requests that refer to one another
Relation(type, id) == PyDict([type |-> PyStr(type), id |-> PyStr(id)])

Related(type, id, data) ==
    PyDict([data |-> PyDict([type |-> PyStr(type), id |-> PyStr(id),
                             relationships |-> PyDict([f0 |-> PyDict([data |-> data])])])])

RewriteDescriptors ==
    { [url |-> "/a", method |-> "POST", body |-> JsonBody(JsonApi("A", PyStr("uuid-1")))],
      [url |-> "/a", method |-> "POST",
       body |-> JsonBody(Related("B", "uuid-2", Relation("A", "uuid-1")))],
      [url |-> "/a", method |-> "Patch",
       body |-> JsonBody(Related("A", "uuid-1",
                    PyList(<<Relation("A", "uuid-1"), Relation("B", "uuid-1")>>)))],
      [url |-> "/a", method |-> "DELETE", body |-> JsonBody(JsonApi("A", PyStr("uuid-1")))],
      [url |-> "/a", method |-> "GET", body |-> JsonBody(JsonApi("A", PyStr("uuid-1")))] }

\* Descriptors for the resource under /b, and one without url whose body is
\* no JSON text
ApiDescriptors ==
    { [url |-> "/b", method |-> "POST", body |-> JsonBody(JsonApi("A", PyStr("uuid-1")))],
      [url |-> "/b", method |-> "GET", onward_data |-> OnwardData],
      [method |-> "POST", body |-> PyStr("hello")] }

Seqs(S, n) == UNION {[1..k -> S] : k \in 0..n}

ListOf(items) == [kind |-> "list", items |-> items]

\* The batches of two calls in progress at the same time: a resource is
\* created and its id passed on, then a resource is created that relates to
\* the first by its request id and takes the id passed on
ConcurrentBatches ==
    { ListOf(<<[url |-> "/c", method |-> "POST", onward_data |-> OnwardData,
                body |-> JsonBody(JsonApi("A", PyStr("uuid-1")))],
               [url |-> "/c", method |-> "POST",
                body |-> JsonBody(Related("B", "{{newId}}", Relation("A", "uuid-1")))]>>) }

\* The batches of either mode
Batches == {[kind |-> "dict"]} \cup {ListOf(b) : b \in Seqs(CtlDescriptors, MaxLen)}

\* The batches that use what only the sequential mode has
SequentialBatches ==
    {ListOf(b) : b \in Seqs(OnwardDescriptors, MAX_LIMIT) \cup Seqs(RewriteDescriptors, MAX_LIMIT)
                       \cup Seqs(ApiDescriptors, MAX_LIMIT)}

-----------------------------------------------------------------------------
(* handle_batch_requests and execute_requests as a state machine.          *)

NoExc == [type |-> "none"]
NoValue == [kind |-> "none"]

Init ==
    /\ sequential_override \in BOOLEAN
    /\ add_duration_header \in BOOLEAN
    /\ batch \in IF sequential_override THEN Batches \cup SequentialBatches ELSE Batches
    /\ requests = <<>>
    /\ pc = "start"
    /\ i = 0
    /\ txn = "none"
    /\ mapping = <<>>
    /\ next_variables = <<>>
    /\ results = <<>>
    /\ wsgi_request = NoValue
    /\ result = NoValue
    /\ wsgi_requests = <<>>
    /\ futures = <<>>
    /\ exc = NoExc
    /\ ret = NoValue
    /\ response = NoValue
    /\ dispatched = <<>>
    /\ log = <<>>
    /\ peer = NoValue

\* execute_requests with one rewriter for the whole process in place of
\* JsonApiRewriter(): the call finds the mapping the other call has built
SeqBegin_singleton ==
    /\ pc = "start"
    /\ sequential_override
    /\ txn' = "active"
    /\ mapping' = peer.mapping
    /\ next_variables' = <<>>
    /\ results' = <<>>
    /\ i' = 0
    /\ \E data \in {get_requests_data(batch)} :
           IF IsRaised(data)
           THEN /\ exc' = data.raised
                /\ pc' = "unwind"
                /\ UNCHANGED requests
           ELSE /\ requests' = data.value
                /\ pc' = IF Len(data.value) = 0 THEN "exit" ELSE "construct"
                /\ UNCHANGED exc
    /\ UNCHANGED <<peer, sequential_override, add_duration_header, batch, wsgi_request, result,
                   wsgi_requests, futures, ret, response, dispatched, log>>

\* execute_requests, sequential: rewriter = JsonApiRewriter(), the entry of
\* transaction.atomic(), next_variables, results and get_requests_data
SeqBegin ==
    /\ pc = "start"
    /\ sequential_override
    /\ txn' = "active"
    /\ mapping' = <<>>
    /\ next_variables' = <<>>
    /\ results' = <<>>
    /\ i' = 0
    /\ \E data \in {get_requests_data(batch)} :
           IF IsRaised(data)
           THEN /\ exc' = data.raised
                /\ pc' = "unwind"
                /\ UNCHANGED requests
           ELSE /\ requests' = data.value
                /\ pc' = IF Len(data.value) = 0 THEN "exit" ELSE "construct"
                /\ UNCHANGED exc
    /\ UNCHANGED <<peer, sequential_override, add_duration_header, batch, wsgi_request, result,
                   wsgi_requests, futures, ret, response, dispatched, log>>

\* The call of construct_wsgi_from_data for index i
SeqConstruct ==
    /\ pc = "construct"
    /\ \E c \in {construct_wsgi_from_data(requests[i + 1], next_variables, TRUE, mapping, i)} :
           /\ log' = Append(log, [op |-> "construct", index |-> i, mapping |-> mapping,
                                   next_variables |-> next_variables, outcome |-> c])
           /\ IF IsRaised(c)
              THEN /\ exc' = c.raised
                   /\ pc' = "unwind"
                   /\ UNCHANGED <<requests, wsgi_request>>
              ELSE /\ requests' = [requests EXCEPT ![i + 1] = c.value.data]
                   /\ wsgi_request' = [kind |-> "pair", request |-> c.value.wsgi_request,
                                       onward_params |-> c.value.onward_variables]
                   /\ pc' = "dispatch"
                   /\ UNCHANGED exc
    /\ UNCHANGED <<peer, sequential_override, add_duration_header, batch, i, txn, mapping,
                   next_variables, results, result, wsgi_requests, futures, ret,
                   response, dispatched>>

\* result = get_response(wsgi_request) for index i
SeqDispatch ==
    /\ pc = "dispatch"
    /\ \E view \in Called(wsgi_request.request) :
         \E r \in {get_response(wsgi_request.request, view, add_duration_header)} :
             /\ dispatched' = Append(dispatched,
                     [descriptor |-> wsgi_request.request.descriptor,
                      request |-> wsgi_request.request, view |-> view, outcome |-> r])
             /\ log' = Append(log, [op |-> "dispatch", index |-> i, mapping |-> mapping])
             /\ IF IsRaised(r)
                THEN /\ exc' = r.raised
                     /\ pc' = "unwind"
                     /\ UNCHANGED result
                ELSE /\ result' = r.value
                     /\ pc' = "after"
                     /\ UNCHANGED exc
    /\ UNCHANGED <<peer, sequential_override, add_duration_header, batch, requests, i, txn,
                   mapping, next_variables, results, wsgi_request, wsgi_requests, futures,
                   ret, response>>

\* The rest of the loop body with the result of update_mapping dropped:
\* rewriter.mapping stays as it was
SeqAfter_keeps_mapping ==
    /\ pc = "after"
    /\ \E updated \in {update_mapping(mapping, requests[i + 1], result)} :
           /\ log' = Append(log, [op |-> "update_mapping", index |-> i, mapping |-> mapping,
                                   outcome |-> updated])
           /\ IF IsRaised(updated)
              THEN /\ exc' = updated.raised
                   /\ pc' = "unwind"
                   /\ UNCHANGED <<mapping, results, next_variables, i>>
              ELSE /\ mapping' = mapping
                   /\ results' = Append(results, result)
                   /\ IF is_error(result.status_code)
                      THEN /\ exc' = IF "body" \in DOMAIN result
                                     THEN BadBatchRequest(SequentialMessage(i, result.body)).raised
                                     ELSE Raised("KeyError").raised
                           /\ pc' = "unwind"
                           /\ UNCHANGED <<next_variables, i>>
                      ELSE \E bound \in {Onward(next_variables, wsgi_request.onward_params,
                                                 result)} :
                           IF IsRaised(bound)
                           THEN /\ exc' = bound.raised
                                /\ pc' = "unwind"
                                /\ UNCHANGED <<next_variables, i>>
                           ELSE /\ next_variables' = bound.value
                                /\ i' = i + 1
                                /\ pc' = IF i + 1 < Len(requests) THEN "construct" ELSE "exit"
                                /\ UNCHANGED exc
    /\ UNCHANGED <<peer, sequential_override, add_duration_header, batch, requests, txn,
                   wsgi_request, result, wsgi_requests, futures, ret, response, dispatched>>

\* The rest of the loop body for index i: update_mapping, results.append,
\* the is_error check and the onward variables
SeqAfter ==
    /\ pc = "after"
    /\ \E updated \in {update_mapping(mapping, requests[i + 1], result)} :
           /\ log' = Append(log, [op |-> "update_mapping", index |-> i, mapping |-> mapping,
                                   outcome |-> updated])
           /\ IF IsRaised(updated)
              THEN /\ exc' = updated.raised
                   /\ pc' = "unwind"
                   /\ UNCHANGED <<mapping, results, next_variables, i>>
              ELSE /\ mapping' = updated.value
                   /\ results' = Append(results, result)
                   /\ IF is_error(result.status_code)
                      THEN /\ exc' = IF "body" \in DOMAIN result
                                     THEN BadBatchRequest(SequentialMessage(i, result.body)).raised
                                     ELSE Raised("KeyError").raised
                           /\ pc' = "unwind"
                           /\ UNCHANGED <<next_variables, i>>
                      ELSE \E bound \in {Onward(next_variables, wsgi_request.onward_params,
                                                 result)} :
                           IF IsRaised(bound)
                           THEN /\ exc' = bound.raised
                                /\ pc' = "unwind"
                                /\ UNCHANGED <<next_variables, i>>
                           ELSE /\ next_variables' = bound.value
                                /\ i' = i + 1
                                /\ pc' = IF i + 1 < Len(requests) THEN "construct" ELSE "exit"
                                /\ UNCHANGED exc
    /\ UNCHANGED <<peer, sequential_override, add_duration_header, batch, requests, txn,
                   wsgi_request, result, wsgi_requests, futures, ret, response, dispatched>>

\* The with block ends normally: the transaction commits, results is returned
SeqExit ==
    /\ pc = "exit"
    /\ txn' = "committed"
    /\ ret' = [kind |-> "list", list |-> results]
    /\ pc' = "respond"
    /\ UNCHANGED <<peer, sequential_override, add_duration_header, batch, requests, i, mapping,
                   next_variables, results, wsgi_request, result, wsgi_requests, futures,
                   exc, response, dispatched, log>>

\* The with block left by an exception and the transaction committed all the same
SeqUnwind_commits ==
    /\ pc = "unwind"
    /\ txn' = "committed"
    /\ pc' = "respond"
    /\ UNCHANGED <<peer, sequential_override, add_duration_header, batch, requests, i, mapping,
                   next_variables, results, wsgi_request, result, wsgi_requests, futures,
                   exc, ret, response, dispatched, log>>

\* An exception leaves the with block: the transaction rolls back, the
\* exception propagates to handle_batch_requests
SeqUnwind ==
    /\ pc = "unwind"
    /\ txn' = "rolled_back"
    /\ pc' = "respond"
    /\ UNCHANGED <<peer, sequential_override, add_duration_header, batch, requests, i, mapping,
                   next_variables, results, wsgi_request, result, wsgi_requests, futures,
                   exc, ret, response, dispatched, log>>

\* execute_requests, parallel: get_wsgi_requests inside the try
ParBegin ==
    /\ pc = "start"
    /\ ~sequential_override
    /\ \E built \in {get_wsgi_requests(batch)} :
           IF IsRaised(built)
           THEN /\ IF built.raised.type = "BadBatchRequest"
                   THEN /\ ret' = [kind |-> "HttpResponseBadRequest", status_code |-> 400,
                                   content |-> built.raised.message]
                        /\ UNCHANGED exc
                   ELSE /\ exc' = built.raised
                        /\ UNCHANGED ret
                /\ pc' = "respond"
                /\ UNCHANGED <<wsgi_requests, futures>>
           ELSE /\ wsgi_requests' = built.value
                /\ futures' = [k \in DOMAIN built.value |-> [done |-> FALSE]]
                /\ pc' = "execute"
                /\ UNCHANGED <<exc, ret>>
    /\ UNCHANGED <<peer, sequential_override, add_duration_header, batch, requests, i, txn,
                   mapping, next_variables, results, wsgi_request, result, response,
                   dispatched, log>>

\* _settings.executor.execute(wsgi_requests, get_response): a worker of the
\* executor applies get_response to one submitted request
ParDispatch(k) ==
    /\ pc = "execute"
    /\ ~futures[k].done
    /\ \E view \in Called(wsgi_requests[k].wsgi_request) :
         \E r \in {get_response(wsgi_requests[k].wsgi_request, view, add_duration_header)} :
             /\ futures' = [futures EXCEPT ![k] = [done |-> TRUE, outcome |-> r]]
             /\ dispatched' = Append(dispatched,
                     [descriptor |-> wsgi_requests[k].wsgi_request.descriptor,
                      request |-> wsgi_requests[k].wsgi_request, view |-> view,
                      outcome |-> r])
    /\ UNCHANGED <<peer, sequential_override, add_duration_header, batch, requests, pc, i, txn,
                   mapping, next_variables, results, wsgi_request, result, wsgi_requests,
                   exc, ret, response, log>>

\* The executor has every result: execute returns them by submission index
ParReturn ==
    /\ pc = "execute"
    /\ \A k \in DOMAIN futures : futures[k].done
    /\ \E outs \in {CollectSeq([k \in DOMAIN futures |-> futures[k].outcome])} :
           IF IsRaised(outs)
           THEN /\ exc' = outs.raised
                /\ UNCHANGED ret
           ELSE /\ ret' = [kind |-> "list", list |-> outs.value]
                /\ UNCHANGED exc
    /\ pc' = "respond"
    /\ UNCHANGED <<peer, sequential_override, add_duration_header, batch, requests, i, txn,
                   mapping, next_variables, results, wsgi_request, result, wsgi_requests,
                   futures, response, dispatched, log>>

\* A result dict as the Python value json.dumps is given
ResultValue(rsp) ==
    PyDict([k \in DOMAIN rsp |->
               IF k = "status_code" THEN PyInt(rsp[k])
               ELSE IF k = "reason_phrase" THEN PyStr(rsp[k])
               ELSE IF k = "headers" THEN PyDict([h \in DOMAIN rsp[k] |-> PyStr(rsp[k][h])])
               ELSE rsp[k]])

\* handle_batch_requests after execute_requests: the except clause, or the
\* HttpResponse of json.dumps(response)
Respond ==
    /\ pc = "respond"
    /\ response' =
         IF exc # NoExc
         THEN IF exc.type = "BadBatchRequest"
              THEN [kind |-> "HttpResponseBadRequest", status_code |-> 400,
                    content |-> exc.message]
              ELSE [kind |-> "exception", exception |-> exc]
         ELSE IF ret.kind = "list"
              THEN [kind |-> "HttpResponse", status_code |-> 200,
                    content |-> JsonDumps(PyList([k \in DOMAIN ret.list |->
                                                     ResultValue(ret.list[k])]))]
              ELSE \* json.dumps of an HttpResponse object
                   [kind |-> "exception", exception |-> Raised("TypeError").raised]
    /\ pc' = "done"
    /\ UNCHANGED <<peer, sequential_override, add_duration_header, batch, requests, i, txn,
                   mapping, next_variables, results, wsgi_request, result, wsgi_requests,
                   futures, exc, ret, dispatched, log>>

Next ==
    \/ SeqBegin
    \/ SeqConstruct
    \/ SeqDispatch
    \/ SeqAfter
    \/ SeqExit
    \/ SeqUnwind
    \/ ParBegin
    \/ \E k \in DOMAIN futures : ParDispatch(k)
    \/ ParReturn
    \/ Respond

Spec == Init /\ [][Next]_vars

-----------------------------------------------------------------------------
(* Two calls of handle_batch_requests in progress at the same time, each   *)
(* in its own thread.  The variables above are the locals of the call that *)
(* takes the next step; peer holds those of the other call.                *)

\* The locals of the running call: rewriter and next_variables are created
\* inside execute_requests, self.mapping inside JsonApiRewriter.__init__
CurrentFrame ==
    [sequential_override |-> sequential_override, batch |-> batch, requests |-> requests,
     pc |-> pc, i |-> i, txn |-> txn, mapping |-> mapping,
     next_variables |-> next_variables, results |-> results,
     wsgi_request |-> wsgi_request, result |-> result, wsgi_requests |-> wsgi_requests,
     futures |-> futures, exc |-> exc, ret |-> ret, response |-> response,
     dispatched |-> dispatched, log |-> log]

\* A call that has not taken a step yet
NewFrame(sequential, b) ==
    [sequential_override |-> sequential, batch |-> b, requests |-> <<>>,
     pc |-> "start", i |-> 0, txn |-> "none", mapping |-> <<>>,
     next_variables |-> <<>>, results |-> <<>>,
     wsgi_request |-> NoValue, result |-> NoValue, wsgi_requests |-> <<>>,
     futures |-> <<>>, exc |-> NoExc, ret |-> NoValue, response |-> NoValue,
     dispatched |-> <<>>, log |-> <<>>]

InitConcurrent ==
    /\ add_duration_header = FALSE
    /\ sequential_override \in BOOLEAN
    /\ batch \in ConcurrentBatches
    /\ requests = <<>>
    /\ pc = "start"
    /\ i = 0
    /\ txn = "none"
    /\ mapping = <<>>
    /\ next_variables = <<>>
    /\ results = <<>>
    /\ wsgi_request = NoValue
    /\ result = NoValue
    /\ wsgi_requests = <<>>
    /\ futures = <<>>
    /\ exc = NoExc
    /\ ret = NoValue
    /\ response = NoValue
    /\ dispatched = <<>>
    /\ log = <<>>
    /\ peer \in {NewFrame(sequential, b) : sequential \in BOOLEAN, b \in ConcurrentBatches}

\* The other thread takes the next step
Switch ==
    /\ peer' = CurrentFrame
    /\ sequential_override' = peer.sequential_override
    /\ batch' = peer.batch
    /\ requests' = peer.requests
    /\ pc' = peer.pc
    /\ i' = peer.i
    /\ txn' = peer.txn
    /\ mapping' = peer.mapping
    /\ next_variables' = peer.next_variables
    /\ results' = peer.results
    /\ wsgi_request' = peer.wsgi_request
    /\ result' = peer.result
    /\ wsgi_requests' = peer.wsgi_requests
    /\ futures' = peer.futures
    /\ exc' = peer.exc
    /\ ret' = peer.ret
    /\ response' = peer.response
    /\ dispatched' = peer.dispatched
    /\ log' = peer.log
    /\ UNCHANGED add_duration_header

NextConcurrent == Next \/ Switch

SpecConcurrent == InitConcurrent /\ [][NextConcurrent]_vars

-----------------------------------------------------------------------------
(* The properties.                                                         *)

\* The error range of the HTTP status codes
ErrorRange(code) == 400 <= code /\ code <= 599

\* A descriptor with url and method, the method one of the supported ones
WellFormed(d) ==
    /\ "url" \in DOMAIN d
    /\ "method" \in DOMAIN d
    /\ Lower(d["method"]) \in valid_http_methods

\* The batch is a list of at most MAX_LIMIT well-formed descriptors
WellFormedBatch ==
    /\ batch.kind = "list"
    /\ Len(batch.items) <= MAX_LIMIT
    /\ \A k \in DOMAIN batch.items : WellFormed(batch.items[k])

\* get_response returned for dispatch p, with an error status
ErrorResult(p) ==
    /\ dispatched[p].outcome.ok
    /\ ErrorRange(dispatched[p].outcome.value.status_code)

\* C1: in sequential mode, once the result of descriptor i has a status code
\* in [400, 599], no descriptor j > i is ever materialized (given to
\* construct_wsgi_from_data) or dispatched (given to get_response).
C1_SequentialAbort ==
    sequential_override =>
        \A p \in DOMAIN dispatched :
            ErrorResult(p) =>
                /\ \A q \in DOMAIN dispatched :
                       dispatched[q].descriptor <= dispatched[p].descriptor
                /\ \A e \in DOMAIN log : log[e].index <= dispatched[p].descriptor

\* Three sequential descriptors, the second answered with the 500 of a
\* raising view: the batch is over and the third was never reached.
C1_Witness ==
    /\ sequential_override
    /\ pc = "done"
    /\ Len(requests) = 3
    /\ Len(dispatched) = 2
    /\ dispatched[2].view.raises
    /\ ErrorResult(2)
    /\ dispatched[2].outcome.value.status_code = 500

\* C2: in sequential mode every result with a status code in [400, 599], the
\* synthetic 404 of an unresolvable path included, ends the batch with the
\* BadBatchRequest that names the failing index and carries the result's
\* body, which handle_batch_requests answers with a 4xx response; no other
\* exception escapes.
C2_ErrorResultIsBadBatchRequest ==
    (sequential_override /\ pc = "done") =>
        \A p \in DOMAIN dispatched :
            ErrorResult(p) =>
                /\ response.kind = "HttpResponseBadRequest"
                /\ response.status_code \in 400..499
                /\ response.content.text = "Sequential requests failed for request at index"
                /\ response.content.index = dispatched[p].descriptor
                /\ "body" \in DOMAIN dispatched[p].outcome.value
                /\ response.content.body = JsonDumps(dispatched[p].outcome.value.body)

\* C3: the transaction of a sequential batch is entered before the first
\* descriptor is processed, is committed only when all N descriptors were
\* dispatched with non-error results and nothing was raised, and is rolled
\* back by every abort.
C3_TransactionScope ==
    sequential_override =>
        /\ txn = "none" => (pc = "start" /\ log = <<>> /\ dispatched = <<>>)
        /\ txn = "active" => pc \in {"construct", "dispatch", "after", "exit", "unwind"}
        /\ txn = "committed" =>
               /\ exc = NoExc
               /\ batch.kind = "list"
               /\ Len(dispatched) = Len(batch.items)
               /\ \A p \in DOMAIN dispatched :
                      /\ dispatched[p].descriptor = p - 1
                      /\ dispatched[p].outcome.ok
                      /\ ~ErrorRange(dispatched[p].outcome.value.status_code)
        /\ pc \in {"respond", "done"} =>
               txn = IF exc = NoExc THEN "committed" ELSE "rolled_back"

\* A batch rolled back by an onward-data lookup that failed on the second,
\* successful, result.
C3_Witness ==
    /\ sequential_override
    /\ pc = "done"
    /\ txn = "rolled_back"
    /\ exc.type \in {"KeyError", "TypeError"}
    /\ Len(dispatched) = 2
    /\ ~ErrorResult(2)
    /\ wsgi_request.onward_params # <<>>

\* C4: in parallel mode the list returned for N well-formed descriptors has
\* N entries and entry i is the result of dispatching descriptor i, in
\* whatever order the dispatches complete.
C4_ParallelOrder ==
    (~sequential_override /\ pc = "done" /\ WellFormedBatch) =>
        /\ ret.kind = "list"
        /\ Len(ret.list) = Len(batch.items)
        /\ Len(dispatched) = Len(batch.items)
        /\ \A k \in DOMAIN ret.list :
               \E p \in DOMAIN dispatched :
                   /\ dispatched[p].descriptor = k - 1
                   /\ dispatched[p].request.path_info = batch.items[k]["url"]
                   /\ dispatched[p].request.method = Lower(batch.items[k]["method"])
                   /\ dispatched[p].outcome = Returned(ret.list[k])

\* Three parallel dispatches that completed out of input order with
\* different results.
C4_Witness ==
    /\ ~sequential_override
    /\ pc = "done"
    /\ ret.kind = "list"
    /\ Len(ret.list) = 3
    /\ dispatched[1].descriptor = 2
    /\ dispatched[2].descriptor = 0
    /\ ret.list[1] # ret.list[3]
    /\ ret.list[1] # ret.list[2]

\* C5: in parallel mode, a batch with a descriptor that is missing url or
\* method or names an unsupported method has no sub-request dispatched.
C5_ParallelFailFast ==
    (/\ ~sequential_override
     /\ batch.kind = "list"
     /\ \E k \in DOMAIN batch.items : ~WellFormed(batch.items[k])) =>
        /\ dispatched = <<>>
        /\ pc # "execute"

\* A parallel batch within the size limit whose first descriptors are
\* well-formed and whose last is not, handled to the end.
C5_Witness ==
    /\ ~sequential_override
    /\ pc = "done"
    /\ batch.kind = "list"
    /\ Len(batch.items) = MAX_LIMIT
    /\ WellFormed(batch.items[1])
    /\ WellFormed(batch.items[2])
    /\ ~WellFormed(batch.items[3])
    /\ dispatched = <<>>

\* The batch has a client-input error that is detected before any dispatch
ClientInputError ==
    IF batch.kind # "list" THEN TRUE
    ELSE \/ Len(batch.items) > MAX_LIMIT
         \/ ~sequential_override /\ \E k \in DOMAIN batch.items : ~WellFormed(batch.items[k])

\* C6: a client-input error detected before any dispatch makes
\* handle_batch_requests return a 4xx response with the error message, in
\* parallel mode as in sequential mode.
C6_ClientErrorIs4xx ==
    (pc = "done" /\ ClientInputError) =>
        /\ response.kind = "HttpResponseBadRequest"
        /\ response.status_code \in 400..499
        /\ response.content.text \in
               {"The body of batch request should always be list!",
                "You can batch maximum of %d requests.",
                "Request definition should have url, method defined.",
                "Invalid request method."}

\* The batch was rejected by the size check of get_requests_data
SizeRejected ==
    \/ exc.type = "BadBatchRequest" /\ exc.message.text = "You can batch maximum of %d requests."
    \/ /\ ret.kind = "HttpResponseBadRequest"
       /\ ret.content.text = "You can batch maximum of %d requests."

\* C7: in both modes a batch of more than MAX_LIMIT descriptors is rejected
\* with no sub-request materialized or dispatched, and a batch of exactly
\* MAX_LIMIT descriptors is not rejected by the size check.
C7_SizeCeiling ==
    batch.kind = "list" =>
        /\ Len(batch.items) > MAX_LIMIT =>
               /\ dispatched = <<>>
               /\ log = <<>>
               /\ pc \notin {"construct", "dispatch", "after", "execute", "exit"}
               /\ pc # "start" => SizeRejected
               /\ pc = "done" => response.kind # "HttpResponse"
        /\ Len(batch.items) <= MAX_LIMIT => ~SizeRejected

\* A batch of exactly MAX_LIMIT descriptors, every one of them dispatched.
C7_Witness ==
    /\ batch.kind = "list"
    /\ Len(batch.items) = MAX_LIMIT
    /\ pc = "done"
    /\ Len(dispatched) = MAX_LIMIT
    /\ response.kind = "HttpResponse"

\* The method of the descriptor carries a body
BodyCarrying(d) == Lower(d["method"]) \notin {"get", "options"}

RECURSIVE Encoded(_, _)
\* The text with every string literal "{{name}}" of a bound name replaced by
\* the JSON encoding of the value bound to it
Encoded(text, bindings) ==
    CASE text.lx = "obj" -> [lx |-> "obj", obj |-> [k \in DOMAIN text.obj |-> Encoded(text.obj[k], bindings)]]
      [] text.lx = "arr" -> [lx |-> "arr", arr |-> [k \in DOMAIN text.arr |-> Encoded(text.arr[k], bindings)]]
      [] text.lx = "lit" ->
            IF \E k \in DOMAIN bindings : text.lit = PyStr("{{" \o bindings[k].name \o "}}")
            THEN JsonDumps(bindings[CHOOSE k \in DOMAIN bindings :
                               text.lit = PyStr("{{" \o bindings[k].name \o "}}")].value)
            ELSE text
      [] OTHER -> text

\* C8: in sequential mode, once an earlier descriptor has bound a name to a
\* truthy value v, every later descriptor with a body-carrying method is
\* dispatched with every "{{name}}" token of its body replaced by the JSON
\* encoding of v.
C8_OnwardSubstitution ==
    sequential_override =>
        \A e \in DOMAIN log :
            (/\ log[e].op = "construct"
             /\ log[e].next_variables # <<>>
             /\ BodyCarrying(batch.items[log[e].index + 1])) =>
                /\ log[e].outcome.ok
                /\ log[e].outcome.value.wsgi_request.data =
                       PyJsonStr(Encoded(JsonDumps(log[e].outcome.value.data["body"]),
                                         log[e].next_variables))

\* The object has a (type, id) pair the mapping has an entry for
Mapped(m, object) ==
    /\ object.ty = "dict"
    /\ {"type", "id"} \subseteq DOMAIN object.d
    /\ <<object.d["type"], object.d["id"]>> \in DOMAIN m

\* The id of a mapped object was overwritten with the mapped value
Overwritten(m, object, rewritten) ==
    Mapped(m, object) => rewritten.d["id"] = m[<<object.d["type"], object.d["id"]>>]

\* Every relation object of the relationship, singular or list, was overwritten
RelationshipOverwritten(m, data, rewritten) ==
    IF data.ty = "list"
    THEN \A k \in DOMAIN data.l : Overwritten(m, data.l[k], rewritten.l[k])
    ELSE Overwritten(m, data, rewritten)

\* The primary data object and every relation object were overwritten
BodyOverwritten(m, data, rewritten) ==
    /\ Overwritten(m, data, rewritten)
    /\ "relationships" \in DOMAIN data.d =>
           \A name \in DOMAIN data.d["relationships"].d :
               RelationshipOverwritten(m, data.d["relationships"].d[name].d["data"],
                                       rewritten.d["relationships"].d[name].d["data"])

\* C9: once update_mapping has recorded (T, c) -> s, rewrite_request on a
\* later post, put, patch or delete descriptor overwrites the id of the
\* primary data object and of every relation object with (type, id) = (T, c)
\* with s, whatever value s the server returned.
C9_RewriteMapped ==
    sequential_override =>
        \A e \in DOMAIN log :
            (/\ log[e].op = "construct"
             /\ log[e].mapping # <<>>
             /\ log[e].outcome.ok
             /\ Lower(batch.items[log[e].index + 1]["method"]) \in rewrite_methods) =>
                BodyOverwritten(log[e].mapping,
                                JsonLoads(batch.items[log[e].index + 1]["body"]).value.d["data"],
                                log[e].outcome.value.data["body"].d["data"])

ResultFields == {"status_code", "reason_phrase", "headers", "body"}

\* C11: every result record get_response produces, the synthetic 404 and the
\* synthetic 5xx records included, has the four fields status_code,
\* reason_phrase, headers and body, and so has every entry of the result
\* list execute_requests returns.
C11_FourFields ==
    /\ \A p \in DOMAIN dispatched :
           dispatched[p].outcome.ok => ResultFields \subseteq DOMAIN dispatched[p].outcome.value
    /\ ret.kind = "list" =>
           \A k \in DOMAIN ret.list : ResultFields \subseteq DOMAIN ret.list[k]

\* C12: in parallel mode an error result of one sub-request, a contained
\* handler exception included, neither stops nor alters its siblings: each
\* of the N well-formed descriptors is dispatched exactly once, N results
\* are returned, nothing is aborted and no transaction is rolled back.
C12_SiblingIndependence ==
    (~sequential_override /\ WellFormedBatch) =>
        /\ txn = "none"
        /\ exc = NoExc
        /\ \A p, q \in DOMAIN dispatched :
               dispatched[p].descriptor = dispatched[q].descriptor => p = q
        /\ \A p \in DOMAIN dispatched :
               /\ dispatched[p].descriptor \in 0..(Len(batch.items) - 1)
               /\ dispatched[p].outcome.ok
        /\ pc \in {"respond", "done"} =>
               /\ Len(dispatched) = Len(batch.items)
               /\ ret.kind = "list"
               /\ Len(ret.list) = Len(batch.items)
        /\ pc = "done" => response.kind = "HttpResponse"

\* Three parallel sub-requests: the first to complete met a raising view,
\* the second was answered 400, the third was still dispatched and
\* answered 200, and the three results were returned.
C12_Witness ==
    /\ ~sequential_override
    /\ pc = "done"
    /\ Len(dispatched) = 3
    /\ dispatched[1].view.raises
    /\ dispatched[1].outcome.value.status_code = 500
    /\ dispatched[2].outcome.value.status_code = 400
    /\ dispatched[3].outcome.value.status_code = 200
    /\ ret.kind = "list"
    /\ Len(ret.list) = 3

\* The messages of the BadBatchRequest of a malformed descriptor
MalformedTexts ==
    {"Request definition should have url, method defined.", "Invalid request method."}

\* C13: in sequential mode a descriptor at index k that is missing url or
\* method or names an unsupported method aborts the batch at index k with a
\* BadBatchRequest: descriptors 0..k-1 have been dispatched, descriptor k
\* and the later ones never are, and the transaction is rolled back.
C13_SequentialMalformed ==
    sequential_override =>
        \A e \in DOMAIN log :
            (log[e].op = "construct" /\ ~WellFormed(batch.items[log[e].index + 1])) =>
                /\ ~log[e].outcome.ok
                /\ log[e].outcome.raised.type = "BadBatchRequest"
                /\ log[e].outcome.raised.message.text \in MalformedTexts
                /\ Len(dispatched) = log[e].index
                /\ \A p \in DOMAIN dispatched : dispatched[p].descriptor = p - 1
                /\ pc \in {"unwind", "respond", "done"}
                /\ pc \in {"respond", "done"} => txn = "rolled_back"
                /\ pc = "done" => response.kind = "HttpResponseBadRequest"

RECURSIVE Unresolved(_, _)
\* The dotted path does not resolve against the value: a step meets a dict
\* without the key, or a value that is no dict
Unresolved(value, accessors) ==
    /\ accessors # <<>>
    /\ \/ value.ty # "dict"
       \/ Head(accessors) \notin DOMAIN value.d
       \/ Unresolved(value.d[Head(accessors)], Tail(accessors))

\* The loop body of index idx got past the is_error check with a result
\* against which a path of the descriptor's onward_data does not resolve
LookupFails(idx) ==
    /\ ~ErrorRange(dispatched[idx + 1].outcome.value.status_code)
    /\ "onward_data" \in DOMAIN batch.items[idx + 1]
    /\ \E n \in DOMAIN batch.items[idx + 1]["onward_data"] :
           Unresolved(dispatched[idx + 1].outcome.value.body,
                      batch.items[idx + 1]["onward_data"][n].accessors)

\* C14: in sequential mode, when a dotted path of the onward_data of
\* descriptor i does not resolve against the body of result i, the batch
\* ends with an exception that is not a BadBatchRequest and is not answered
\* with a 4xx response; the binding is not skipped, no later descriptor is
\* dispatched and the transaction is rolled back.
C14_LookupFailureIsFatal ==
    sequential_override =>
        \A e \in DOMAIN log :
            (log[e].op = "update_mapping" /\ log[e].outcome.ok /\ LookupFails(log[e].index)) =>
                /\ exc.type \in {"KeyError", "TypeError"}
                /\ Len(dispatched) = log[e].index + 1
                /\ e = Len(log)
                /\ pc \in {"unwind", "respond", "done"}
                /\ pc \in {"respond", "done"} => txn = "rolled_back"
                /\ pc = "done" =>
                       /\ response.kind = "exception"
                       /\ response.exception.type # "BadBatchRequest"

\* A batch of three descriptors whose second result has data but no id for
\* the path data.id: it ended there with a KeyError and was rolled back.
C14_Witness ==
    /\ sequential_override
    /\ pc = "done"
    /\ batch.kind = "list"
    /\ Len(batch.items) = 3
    /\ Len(dispatched) = 2
    /\ dispatched[2].outcome.value.status_code = 200
    /\ dispatched[2].outcome.value.body.ty = "dict"
    /\ "data" \in DOMAIN dispatched[2].outcome.value.body.d
    /\ LookupFails(1)
    /\ exc.type = "KeyError"
    /\ txn = "rolled_back"

\* The descriptor's method, compared in lower case, is one of post, put,
\* patch and delete
RewriteMethod(d) ==
    /\ "method" \in DOMAIN d
    /\ Lower(d["method"]) \in {"post", "put", "patch", "delete"}

\* C15: rewrite_request on a descriptor whose method is GET, or any other
\* method outside post, put, patch and delete compared in lower case, never
\* changes the descriptor's body and never changes the rewriter's mapping,
\* whatever the mapping holds.
C15_NoRewriteOutsideMethods ==
    sequential_override =>
        /\ \A k \in DOMAIN requests :
               ~RewriteMethod(batch.items[k]) => requests[k] = batch.items[k]
        /\ \A e \in DOMAIN log :
               (log[e].op = "construct" /\ ~RewriteMethod(batch.items[log[e].index + 1])) =>
                   /\ log[e].outcome.ok =>
                          log[e].outcome.value.data = batch.items[log[e].index + 1]
                   /\ e < Len(log) => log[e + 1].mapping = log[e].mapping
                   /\ e = Len(log) => mapping = log[e].mapping

\* A GET descriptor whose body names a resource the mapping has an entry
\* for went through rewrite_request and was dispatched.
C15_Witness ==
    /\ sequential_override
    /\ pc = "done"
    /\ \E e \in DOMAIN log :
           /\ log[e].op = "construct"
           /\ log[e].outcome.ok
           /\ batch.items[log[e].index + 1]["method"] = "GET"
           /\ "body" \in DOMAIN batch.items[log[e].index + 1]
           /\ <<PyStr("A"), PyStr("uuid-1")>> \in DOMAIN log[e].mapping
           /\ Truthy(log[e].mapping[<<PyStr("A"), PyStr("uuid-1")>>])
           /\ batch.items[log[e].index + 1]["body"] = JsonBody(JsonApi("A", PyStr("uuid-1")))
           /\ Len(dispatched) > log[e].index

\* The step a log entry at position e stands for, when every index runs
\* its three steps in order
StepAt(e) ==
    CASE (e - 1) % 3 = 0 -> "construct"
      [] (e - 1) % 3 = 1 -> "dispatch"
      [] OTHER -> "update_mapping"

\* C16: in sequential mode the steps of every index occur in the order
\* rewrite_request(i) (within construct_wsgi_from_data), dispatch(i),
\* update_mapping(i), and rewrite_request for descriptor i runs after
\* update_mapping was applied for every j < i: the mapping it sees is the
\* one update_mapping(i - 1) left, with every entry learned from results
\* 0..i-1.
C16_RewriteDispatchUpdateOrder ==
    sequential_override =>
        \A e \in DOMAIN log :
            /\ log[e].op = StepAt(e)
            /\ log[e].index = (e - 1) \div 3
            /\ e = 1 => log[e].mapping = <<>>
            /\ (log[e].op = "construct" /\ e > 1) =>
                   /\ log[e - 1].outcome.ok
                   /\ log[e].mapping = log[e - 1].outcome.value
                   /\ \A u \in 1..(e - 1) :
                          log[u].op = "update_mapping" =>
                              DOMAIN log[u].outcome.value \subseteq DOMAIN log[e].mapping
            /\ log[e].op = "dispatch" =>
                   /\ log[e - 1].outcome.ok
                   /\ log[e].mapping = log[e - 1].mapping
                   /\ Len(dispatched) >= log[e].index + 1
                   /\ dispatched[log[e].index + 1].request = log[e - 1].outcome.value.wsgi_request
            /\ log[e].op = "update_mapping" => log[e].mapping = log[e - 1].mapping

\* The second descriptor refers to the resource the first one created: it
\* was rewritten with the id learned from the first result.
C16_Witness ==
    /\ sequential_override
    /\ pc = "done"
    /\ Len(log) >= 6
    /\ batch.items[2] = [url |-> "/a", method |-> "POST",
                         body |-> JsonBody(Related("B", "uuid-2", Relation("A", "uuid-1")))]
    /\ log[3].outcome.ok
    /\ log[3].mapping = <<>>
    /\ log[3].outcome.value # <<>>
    /\ <<PyStr("A"), PyStr("uuid-1")>> \in DOMAIN log[4].mapping
    /\ log[4].mapping[<<PyStr("A"), PyStr("uuid-1")>>] = PyInt(42)
    /\ log[4].outcome.ok
    /\ log[4].outcome.value.data["body"].d["data"].d["relationships"].d["f0"].d["data"].d["id"]
           = PyInt(42)

\* The descriptor's method, compared in lower case, is post, put or patch
\* and the status of the result is 200 or 201
MayUpdate(d, rsp) ==
    /\ "method" \in DOMAIN d
    /\ Lower(d["method"]) \in {"post", "put", "patch"}
    /\ rsp.status_code \in {200, 201}

\* C17: update_mapping leaves the rewriter's mapping as it was unless the
\* descriptor's method is post, put or patch, compared in lower case, and
\* the status of the result is 200 or 201: a DELETE descriptor, another 2xx
\* status and every error status never add or change an entry.
C17_UpdateMappingFrame ==
    sequential_override =>
        \A e \in DOMAIN log :
            (/\ log[e].op = "update_mapping"
             /\ ~MayUpdate(batch.items[log[e].index + 1],
                           dispatched[log[e].index + 1].outcome.value)) =>
                /\ log[e].outcome.ok
                /\ log[e].outcome.value = log[e].mapping
                /\ e < Len(log) => log[e + 1].mapping = log[e].mapping
                /\ e = Len(log) => mapping = log[e].mapping

\* The request and the result both carry data with an id
BothCarryId(e) ==
    /\ "body" \in DOMAIN batch.items[log[e].index + 1]
    /\ batch.items[log[e].index + 1]["body"] = JsonBody(JsonApi("A", PyStr("uuid-1")))
    /\ "body" \in DOMAIN dispatched[log[e].index + 1].outcome.value
    /\ dispatched[log[e].index + 1].outcome.value.body.ty = "dict"
    /\ "data" \in DOMAIN dispatched[log[e].index + 1].outcome.value.body.d
    /\ "id" \in DOMAIN dispatched[log[e].index + 1].outcome.value.body.d["data"].d

\* update_mapping ran for a POST answered 202 and for a POST answered 400,
\* each with an id in the request and in the result, and the mapping is
\* still empty.
C17_Witness ==
    /\ sequential_override
    /\ pc = "done"
    /\ Len(log) = 6
    /\ batch.items[1]["method"] = "POST"
    /\ batch.items[2]["method"] = "POST"
    /\ dispatched[1].outcome.value.status_code = 202
    /\ dispatched[2].outcome.value.status_code = 400
    /\ BothCarryId(3)
    /\ BothCarryId(6)
    /\ mapping = <<>>

\* data of the request body and of the result body at the update_mapping
\* entry e of the log; the request is the descriptor as the construct step
\* two entries earlier left it
RequestData(e) == log[e - 2].outcome.value.data["body"].d["data"]
ResultData(e) == dispatched[log[e].index + 1].outcome.value.body.d["data"]

\* The request body and the result body are dicts with a dict under data
CarryData(e) ==
    /\ "body" \in DOMAIN log[e - 2].outcome.value.data
    /\ log[e - 2].outcome.value.data["body"].ty = "dict"
    /\ "data" \in DOMAIN log[e - 2].outcome.value.data["body"].d
    /\ RequestData(e).ty = "dict"
    /\ "body" \in DOMAIN dispatched[log[e].index + 1].outcome.value
    /\ dispatched[log[e].index + 1].outcome.value.body.ty = "dict"
    /\ "data" \in DOMAIN dispatched[log[e].index + 1].outcome.value.body.d
    /\ ResultData(e).ty = "dict"

\* The entry key -> log[e].outcome.value[key] was recorded by entry e from a
\* request and a result that both carry data.id, for resources of one type
RecordedFrom(e, key) ==
    /\ log[e].op = "update_mapping"
    /\ log[e].outcome.ok
    /\ key \in DOMAIN log[e].outcome.value
    /\ CarryData(e)
    /\ {"type", "id"} \subseteq DOMAIN RequestData(e).d
    /\ <<RequestData(e).d["type"], RequestData(e).d["id"]>> = key
    /\ "id" \in DOMAIN ResultData(e).d
    /\ ResultData(e).d["id"] = log[e].outcome.value[key]
    /\ "type" \in DOMAIN ResultData(e).d
    /\ ResultData(e).d["type"] = RequestData(e).d["type"]

\* C18: every entry (type, request id) -> response id of the rewriter's
\* mapping was recorded from a request that carried data.id and a result
\* that carried data.id of the same resource type; no entry is recorded
\* when the data.type of the result differs from that of the request.
C18_MappingTypeMatch ==
    sequential_override =>
        \A key \in DOMAIN mapping :
            \E e \in DOMAIN log : RecordedFrom(e, key) /\ log[e].outcome.value[key] = mapping[key]

\* The rewritten object has the fields of the object with the same values,
\* but for relationships and for the id of an object the mapping has an
\* entry for
ObjectKept(m, object, rewritten) ==
    /\ rewritten.ty = object.ty
    /\ object.ty = "dict" =>
           /\ DOMAIN rewritten.d = DOMAIN object.d
           /\ \A f \in DOMAIN object.d \ {"id", "relationships"} :
                  rewritten.d[f] = object.d[f]
           /\ ("id" \in DOMAIN object.d /\ ~Mapped(m, object)) =>
                  rewritten.d["id"] = object.d["id"]

\* The same for the data of a relationship, one object or a list of them
RelationshipKept(m, data, rewritten) ==
    IF data.ty = "list"
    THEN /\ rewritten.ty = "list"
         /\ Len(rewritten.l) = Len(data.l)
         /\ \A k \in DOMAIN data.l : ObjectKept(m, data.l[k], rewritten.l[k])
    ELSE ObjectKept(m, data, rewritten)

\* The same for the primary data object and every relationship under it
DataKept(m, data, rewritten) ==
    /\ ObjectKept(m, data, rewritten)
    /\ "relationships" \in DOMAIN data.d =>
           /\ DOMAIN rewritten.d["relationships"].d = DOMAIN data.d["relationships"].d
           /\ \A name \in DOMAIN data.d["relationships"].d :
                  /\ DOMAIN rewritten.d["relationships"].d[name].d
                         = DOMAIN data.d["relationships"].d[name].d
                  /\ RelationshipKept(m, data.d["relationships"].d[name].d["data"],
                                      rewritten.d["relationships"].d[name].d["data"])

\* The body of the descriptor before and after rewrite_request
BodyKept(m, body, rewritten) ==
    /\ rewritten.ty = "dict"
    /\ DOMAIN rewritten.d = DOMAIN body.d
    /\ \A f \in DOMAIN body.d \ {"data"} : rewritten.d[f] = body.d[f]
    /\ "data" \in DOMAIN body.d => DataKept(m, body.d["data"], rewritten.d["data"])

\* C19: rewrite_request leaves the id of the primary data object and of
\* every relation object whose (type, id) pair has no entry in the mapping
\* as it was, also when the pair shares only its type or only its id with a
\* pair that has an entry, and it changes no field other than id.
C19_RewriteFrame ==
    sequential_override =>
        \A e \in DOMAIN log :
            (/\ log[e].op = "construct"
             /\ log[e].outcome.ok
             /\ RewriteMethod(batch.items[log[e].index + 1])
             /\ "body" \in DOMAIN batch.items[log[e].index + 1]) =>
                /\ DOMAIN log[e].outcome.value.data = DOMAIN batch.items[log[e].index + 1]
                /\ \A f \in DOMAIN batch.items[log[e].index + 1] \ {"body"} :
                       log[e].outcome.value.data[f] = batch.items[log[e].index + 1][f]
                /\ BodyKept(log[e].mapping,
                            JsonLoads(batch.items[log[e].index + 1]["body"]).value,
                            log[e].outcome.value.data["body"])

\* The mapping has entries for (A, uuid-1) and (B, uuid-2); the third
\* descriptor relates to (A, uuid-1) and to (B, uuid-1), which shares its id
\* with the one entry and its type with the other: the first relation was
\* rewritten and the second kept its id.
C19_Witness ==
    /\ sequential_override
    /\ pc = "done"
    /\ Len(log) >= 7
    /\ batch.items[3] = [url |-> "/a", method |-> "Patch",
                         body |-> JsonBody(Related("A", "uuid-1",
                                      PyList(<<Relation("A", "uuid-1"), Relation("B", "uuid-1")>>)))]
    /\ {<<PyStr("A"), PyStr("uuid-1")>>, <<PyStr("B"), PyStr("uuid-2")>>}
           \subseteq DOMAIN log[7].mapping
    /\ log[7].mapping[<<PyStr("A"), PyStr("uuid-1")>>] = PyInt(42)
    /\ log[7].mapping[<<PyStr("B"), PyStr("uuid-2")>>] = PyStr("7")
    /\ log[7].outcome.ok
    /\ log[7].outcome.value.data["body"].d["data"].d["relationships"].d["f0"].d["data"]
           = PyList(<<PyDict([type |-> PyStr("A"), id |-> PyInt(42)]), Relation("B", "uuid-1")>>)

RECURSIVE Resolved(_, _)
\* The value a dotted path that resolves leads to
Resolved(value, accessors) ==
    IF accessors = <<>> THEN value
    ELSE Resolved(value.d[Head(accessors)], Tail(accessors))

\* 0, the empty string, null, the empty list and the empty map
Falsy(value) ==
    \/ value.ty = "none"
    \/ value.ty = "int" /\ value.n = 0
    \/ value.ty = "str" /\ value.s = ""
    \/ value.ty = "list" /\ value.l = <<>>
    \/ value.ty = "dict" /\ DOMAIN value.d = {}

\* The values bound to the name: one, or none when the name is unbound
Binding(bindings, name) ==
    {bindings[k].value : k \in {j \in DOMAIN bindings : bindings[j].name = name}}

\* next_variables after the loop body logged at entry e: what the next
\* construct step was given, or the variable when no step followed
BindingsAfter(e) == IF e < Len(log) THEN log[e + 1].next_variables ELSE next_variables

\* The onward variable od of the descriptor at index idx resolves against
\* the body of its result, to a falsy value
ResolvesFalsy(idx, od) ==
    /\ ~Unresolved(dispatched[idx + 1].outcome.value.body, od.accessors)
    /\ Falsy(Resolved(dispatched[idx + 1].outcome.value.body, od.accessors))

\* C20: in sequential mode an onward variable is bound only when the value
\* its path resolves to is truthy: for a falsy or empty value the bindings
\* stay as they were, an unbound name stays unbound and a name bound by an
\* earlier descriptor keeps its value.
C20_FalsyNotBound ==
    sequential_override =>
        \A e \in DOMAIN log :
            (/\ log[e].op = "update_mapping"
             /\ log[e].outcome.ok
             /\ ~ErrorRange(dispatched[log[e].index + 1].outcome.value.status_code)
             /\ "onward_data" \in DOMAIN batch.items[log[e].index + 1]) =>
                \A n \in DOMAIN batch.items[log[e].index + 1]["onward_data"] :
                    ResolvesFalsy(log[e].index, batch.items[log[e].index + 1]["onward_data"][n]) =>
                        Binding(BindingsAfter(e),
                                batch.items[log[e].index + 1]["onward_data"][n].name)
                            = Binding(log[e - 2].next_variables,
                                      batch.items[log[e].index + 1]["onward_data"][n].name)

\* Three descriptors with onward_data newId: data.id: the first result has
\* the id "", the second 42, the third null; newId was unbound after the
\* first, and is 42 after the second and after the third.
C20_Witness ==
    /\ sequential_override
    /\ pc = "done"
    /\ Len(log) = 9
    /\ \A k \in 1..3 : "onward_data" \in DOMAIN batch.items[k]
    /\ \A k \in 1..3 : ~Unresolved(dispatched[k].outcome.value.body, <<"data", "id">>)
    /\ Resolved(dispatched[1].outcome.value.body, <<"data", "id">>) = PyStr("")
    /\ Resolved(dispatched[2].outcome.value.body, <<"data", "id">>) = PyInt(42)
    /\ Resolved(dispatched[3].outcome.value.body, <<"data", "id">>) = PyNone
    /\ log[4].next_variables = <<>>
    /\ log[7].next_variables = <<[name |-> "newId", value |-> PyInt(42)]>>
    /\ next_variables = <<[name |-> "newId", value |-> PyInt(42)]>>

\* The entry key -> value of the mapping was learned by the call with frame
\* F itself: one of its own update_mapping steps before log entry e had a
\* request with that (type, id) and a result with that id
LearnedByOwnUpdate(F, e, key, value) ==
    \E u \in 1..(e - 1) :
        /\ F.log[u].op = "update_mapping"
        /\ F.log[u].outcome.ok
        /\ key \in DOMAIN F.log[u].outcome.value
        /\ F.log[u].outcome.value[key] = value
        /\ "body" \in DOMAIN F.batch.items[F.log[u].index + 1]
        /\ F.log[u - 2].outcome.value.data["body"].d["data"].d["type"] = key[1]
        /\ F.log[u - 2].outcome.value.data["body"].d["data"].d["id"] = key[2]
        /\ F.dispatched[F.log[u].index + 1].outcome.value.body.d["data"].d["id"] = value

\* The binding was learned by the call with frame F itself: one of its own
\* descriptors before index idx declares the name, and its path resolves to
\* the value against the descriptor's own result
LearnedByOwnResult(F, idx, binding) ==
    \E p \in 1..idx :
        /\ "onward_data" \in DOMAIN F.batch.items[p]
        /\ \E n \in DOMAIN F.batch.items[p]["onward_data"] :
               /\ F.batch.items[p]["onward_data"][n].name = binding.name
               /\ ~Unresolved(F.dispatched[p].outcome.value.body,
                              F.batch.items[p]["onward_data"][n].accessors)
               /\ Resolved(F.dispatched[p].outcome.value.body,
                           F.batch.items[p]["onward_data"][n].accessors) = binding.value

\* What the call with frame F rewrote and substituted with is its own: in
\* sequential mode empty at its first descriptor and learned from its own
\* results afterwards, in parallel mode nothing at all
FrameOwnsState(F) ==
    IF F.sequential_override
    THEN \A e \in DOMAIN F.log :
             F.log[e].op = "construct" =>
                 /\ e = 1 => (F.log[e].mapping = <<>> /\ F.log[e].next_variables = <<>>)
                 /\ e > 1 => F.log[e].mapping = F.log[e - 1].outcome.value
                 /\ \A key \in DOMAIN F.log[e].mapping :
                        LearnedByOwnUpdate(F, e, key, F.log[e].mapping[key])
                 /\ \A b \in DOMAIN F.log[e].next_variables :
                        LearnedByOwnResult(F, F.log[e].index, F.log[e].next_variables[b])
    ELSE /\ F.mapping = <<>>
         /\ F.next_variables = <<>>
         /\ F.log = <<>>
         /\ \A k \in DOMAIN F.wsgi_requests : F.wsgi_requests[k].data = F.batch.items[k]

\* C21: the rewriter's mapping and the variable bindings of a sequential
\* batch start empty for every batch and belong to that batch alone: under
\* every interleaving of two batches in progress at the same time, each
\* sequential or parallel, no mapping entry or binding learned in one batch
\* takes part in the rewriting or substitution of a descriptor of the other.
C21_PerBatchOwnership ==
    /\ FrameOwnsState(CurrentFrame)
    /\ FrameOwnsState(peer)

\* Two sequential batches in progress: each has created (A, uuid-1), one
\* got the id "7" and the other "s2"; the running one has rewritten its
\* second descriptor with "7" while the other is about to rewrite its own.
C21_Witness ==
    /\ peer # NoValue
    /\ sequential_override
    /\ peer.sequential_override
    /\ pc = "dispatch"
    /\ i = 1
    /\ peer.pc = "construct"
    /\ peer.i = 1
    /\ peer.mapping = (<<PyStr("A"), PyStr("uuid-1")>> :> PyStr("s2"))
    /\ peer.next_variables = <<[name |-> "newId", value |-> PyStr("s2")]>>
    /\ mapping = (<<PyStr("A"), PyStr("uuid-1")>> :> PyStr("7"))
    /\ log[4].next_variables = <<[name |-> "newId", value |-> PyStr("7")]>>
    /\ log[4].outcome.ok
    /\ log[4].outcome.value.data["body"].d["data"].d["relationships"].d["f0"].d["data"].d["id"]
           = PyStr("7")

\* Every path of the onward_data of the descriptor dispatched as number p
\* resolves against the body of its result
OnwardResolves(p) ==
    "onward_data" \in DOMAIN batch.items[p] =>
        \A n \in DOMAIN batch.items[p]["onward_data"] :
            ~Unresolved(dispatched[p].outcome.value.body,
                        batch.items[p]["onward_data"][n].accessors)

\* None of the specified reasons to abort has occurred: the descriptors are
\* well-formed, every result has a status below 400 and every declared
\* onward_data path resolves
NoReasonToAbort ==
    /\ WellFormedBatch
    /\ \A p \in DOMAIN dispatched :
           /\ dispatched[p].outcome.ok
           /\ dispatched[p].outcome.value.status_code < 400
           /\ OnwardResolves(p)

\* C22: in sequential mode a batch of well-formed descriptors aborts only
\* for the specified reasons: when every result has a status below 400 and
\* every declared onward_data path resolves, all N descriptors are
\* dispatched exactly once in input order and N results are returned,
\* whatever the response bodies (JSON object, JSON without data, plain
\* text) and the bound values are.
C22_SequentialCompletes ==
    (sequential_override /\ pc = "done" /\ NoReasonToAbort) =>
        /\ exc = NoExc
        /\ Len(dispatched) = Len(batch.items)
        /\ \A p \in DOMAIN dispatched : dispatched[p].descriptor = p - 1
        /\ ret.kind = "list"
        /\ Len(ret.list) = Len(batch.items)
        /\ response.kind = "HttpResponse"

====
